---- MODULE Spec2Model ----
(***************************************************************************)
(* Model of the batch-simulation server: the HTTP handler simulate_batch   *)
(* (src/src/trace.rs), the mpsc job channel and the sequential executor    *)
(* loop of main (src/src/main.rs), the TraceResponse / TxRequest messages  *)
(* (src/src/types.rs) and the SimulateError classes (src/src/error.rs).    *)
(*                                                                         *)
(* External collaborators are modelled by their contract at the call site: *)
(*  - the RPC provider (get_block_number / get_block_by_number) answers    *)
(*    nondeterministically;                                                *)
(*  - the simulator (process_transactions) returns one outcome per         *)
(*    transaction, chosen nondeterministically;                            *)
(*  - get_token_infos queries the listed tokens one by one and fails iff   *)
(*    the query of one of them fails;                                      *)
(*  - tokio::signal::ctrl_c().now_or_never().is_some() is read as "the     *)
(*    interrupt signal has been raised" (the flag `shutdown`);             *)
(*  - the channel senders live in the HTTP server's AppState and are not   *)
(*    dropped while the executor loop runs, so rx.recv() never yields None.*)
(***************************************************************************)
EXTENDS Integers, Sequences, FiniteSets, TLC

\* ---------------------------------------------------------------- bounds
NumCalls == 2        \* concurrent HTTP calls
MaxTxs == 2          \* longest request list of the parsing and execution specifications
MaxTransfers == 1    \* longest asset_transfers list of one transaction outcome

\* operation codes of TraceRequestSingle.operation
CALL_OPERATION == 0
CREATE_OPERATION == 2

Calls == 1..NumCalls
\* the parsing and execution specifications study the request of one call,
\* the parsing specification beside a second call that keeps the queue in use
StudyCalls == {1}
BackgroundCalls == {2}

\* Option<T>: None is the empty sequence, Some(x) the one-element sequence
None == <<>>
Some(x) == <<x>>
IsSome(o) == Len(o) = 1
Unwrap(o) == o[1]

Ok(v) == [ok |-> TRUE, val |-> v]
Err(e) == [ok |-> FALSE, err |-> e]

\* ---------------------------------------------------------------- error.rs
ErrorClasses ==
    {"AddressParseError", "Uint256ParseError", "InvalidOperation", "ChainNotFound",
     "HexDecodeError", "AnyhowError", "SimulationError"}

SimulateError(class, arg) == [class |-> class, arg |-> arg]

DisplayPrefix(class) ==
    CASE class = "AddressParseError" -> "Address parse error: "
      [] class = "Uint256ParseError" -> "Uint256 parse error: "
      [] class = "InvalidOperation" -> "Invalid operation: "
      [] class = "ChainNotFound" -> "Chain not found: "
      [] class = "HexDecodeError" -> "Hex decode error: "
      [] class = "AnyhowError" -> "Anyhow error: "
      [] class = "SimulationError" -> "Simulation error: "

\* impl fmt::Display for SimulateError: the prefix of the class, then the argument
Display(e) == <<DisplayPrefix(e.class), e.arg>>

\* impl ResponseError: HTTP 400 with {"error": <display>}
error_response(e) == [status |-> 400, error |-> Display(e)]

\* impl From<hex::FromHexError>
FromHexError(msg) == SimulateError("HexDecodeError", msg)
\* impl From<String>
FromString(msg) == SimulateError("AnyhowError", msg)

\* ---------------------------------------------------------------- parsing
\* Sample input strings and what the parsers of alloy make of them.
ValidAddressStrings == {"0xAAA", "0xBBB"}
AddressValue(s) == IF s = "0xAAA" THEN "AddrA" ELSE "AddrB"

parse_address(s) ==
    IF s \in ValidAddressStrings
    THEN Ok(AddressValue(s))
    ELSE Err(SimulateError("AddressParseError", <<"Invalid address format: ", s>>))

\* decimal strings are sequences of characters
Digits == <<"0", "1", "2", "3", "4", "5", "6", "7", "8", "9">>
IsDigit(c) == \E i \in 1..10 : Digits[i] = c
DigitValue(c) == (CHOOSE i \in 1..10 : Digits[i] = c) - 1
RECURSIVE DecimalValue(_)
DecimalValue(s) ==
    IF s = <<>> THEN 0
    ELSE 10 * DecimalValue(SubSeq(s, 1, Len(s) - 1)) + DigitValue(s[Len(s)])

parse_u256(s) ==
    IF s # <<>> /\ \A i \in 1..Len(s) : IsDigit(s[i])
    THEN Ok(DecimalValue(s))
    ELSE Err(SimulateError("Uint256ParseError",
                           <<"Invalid uint256 radix of decimal format: ", s>>))

\* hex::decode on the sample payload strings
hex_decode(s) ==
    CASE s = "0x" -> Ok(<<>>)
      [] s = "0x01" -> Ok(<<1>>)
      [] OTHER -> Err(FromHexError("Invalid character"))

\* ---------------------------------------------------------------- requests
\* TraceRequestSingle: from, to, value, data, operation
CallEntry ==
    [from |-> "0xAAA", to |-> Some("0xBBB"), value |-> Some(<<"1", "0">>),
     data |-> Some("0x01"), operation |-> 0]
CreateEntry ==
    [from |-> "0xBBB", to |-> None, value |-> None, data |-> None, operation |-> 2]

\* every combination of caller, destination and operation code, and every
\* combination of value and payload on a call
Entries ==
    { [CallEntry EXCEPT !.from = f, !.to = t, !.operation = o] :
        f \in {"0xAAA", "0xZZ"}, t \in {None, Some("0xBBB"), Some("0xZZ")}, o \in 0..2 }
    \cup { [CallEntry EXCEPT !.value = v] : v \in {None, Some(<<"1", "x">>)} }
    \cup { [CallEntry EXCEPT !.data = d] : d \in {Some("0x"), Some("zz")} }
    \cup {CreateEntry, [CallEntry EXCEPT !.operation = 255]}

SeqsUpTo(S, n) == UNION { [1..k -> S] : k \in 0..n }

\* the Network Registry of chains.json: chain_id -> native symbol, decimals
chains_map ==
    [c \in {1, 56} |->
        IF c = 1 THEN [symbol |-> "ETH", decimals |-> 18]
                 ELSE [symbol |-> "BNB", decimals |-> 18]]
\* AppState.chains: one provider per configured chain
supported_chains == DOMAIN chains_map
\* block numbers a request may name; LatestBlock is what get_block_number answers
BlockNumbers == {None, Some(5)}
LatestBlock == 7

\* BatchTraceRequest: chain_id, block_number, requests (is_stateful is passed
\* through to the simulator untouched)
ParseRequests ==
    [chain_id : {1, 999}, is_stateful : {FALSE}, block_number : BlockNumbers,
     requests : SeqsUpTo(Entries, MaxTxs)]
\* calls and creations in turn, one request list of every length up to MaxTxs
MixedEntries(n) == [i \in 1..n |-> IF i % 2 = 1 THEN CallEntry ELSE CreateEntry]
ExecRequests ==
    [chain_id : supported_chains, is_stateful : {FALSE}, block_number : {Some(5)},
     requests : { MixedEntries(n) : n \in 0..MaxTxs }]
BackgroundRequests ==
    [chain_id : {1}, is_stateful : {FALSE}, block_number : {None},
     requests : {<<CallEntry>>}]
Requests ==
    [chain_id : {1, 999}, is_stateful : {FALSE}, block_number : {None},
     requests : {<<CallEntry>>, <<[CallEntry EXCEPT !.operation = 1]>>}]

\* ---------------------------------------------------------------- trace.rs 56-95
InvalidOperation(msg) == SimulateError("InvalidOperation", msg)

to_address_delegate_as_call(r) ==
    IF r.operation = CREATE_OPERATION THEN Ok(None)
    ELSE IF r.operation \in {CALL_OPERATION, 1}
    THEN IF IsSome(r.to)
         THEN LET p == parse_address(Unwrap(r.to))
              IN  IF p.ok THEN Ok(Some(p.val)) ELSE p
         ELSE Err(InvalidOperation("Operation call must have a to address"))
    ELSE Err(InvalidOperation("Invalid operation type"))
\* lines 59-74: the destination of one request
to_address(r) ==
    IF r.operation = CREATE_OPERATION THEN Ok(None)
    ELSE IF r.operation = CALL_OPERATION
    THEN IF IsSome(r.to)
         THEN LET p == parse_address(Unwrap(r.to))
              IN  IF p.ok THEN Ok(Some(p.val)) ELSE p
         ELSE Err(InvalidOperation("Operation call must have a to address"))
    ELSE Err(InvalidOperation("Invalid operation type"))

\* lines 75-79
value_of(r) == IF IsSome(r.value) THEN parse_u256(Unwrap(r.value)) ELSE Ok(0)
data_of_or_default(r) ==
    IF IsSome(r.data) /\ hex_decode(Unwrap(r.data)).ok
    THEN hex_decode(Unwrap(r.data)) ELSE Ok(<<>>)
\* lines 80-84
data_of(r) == IF IsSome(r.data) THEN hex_decode(Unwrap(r.data)) ELSE Ok(<<>>)

TxKindCall(to) == <<"Call", to>>
TxKindCreate == <<"Create">>

\* lines 58-94: one iteration of the loop, the `?` returning the first error
simulation_tx(r) ==
    LET from == parse_address(r.from)
        to == to_address(r)
        value == value_of(r)
        data == data_of(r)
    IN  IF ~from.ok THEN from
        ELSE IF ~to.ok THEN to
        ELSE IF ~value.ok THEN value
        ELSE IF ~data.ok THEN data
        ELSE Ok([caller |-> from.val,
                 transact_to |-> IF IsSome(to.val) THEN TxKindCall(Unwrap(to.val))
                                 ELSE TxKindCreate,
                 value |-> value.val,
                 data |-> data.val])

RECURSIVE build_transactions_prepending(_, _)
build_transactions_prepending(requests, transactions) ==
    IF requests = <<>> THEN Ok(transactions)
    ELSE LET tx == simulation_tx(Head(requests))
         IN  IF tx.ok
             THEN build_transactions_prepending(Tail(requests), <<tx.val>> \o transactions)
             ELSE tx
\* lines 56-95: the loop over the requests, in order, stopping at the first error
RECURSIVE build_transactions(_, _)
build_transactions(requests, transactions) ==
    IF requests = <<>> THEN Ok(transactions)
    ELSE LET tx == simulation_tx(Head(requests))
         IN  IF tx.ok THEN build_transactions(Tail(requests), Append(transactions, tx.val))
             ELSE tx

\* ---------------------------------------------------------------- trace.rs 165-185
\* What the provider answers: get_block_number fails or not, get_block_by_number
\* fails, finds no block, or finds the block.
ProviderAnswers == [number : {"err", "ok"}, block : {"err", "none", "ok"}]
TimestampOf(n) == 1000 + n

get_block_env(block_number, p) ==
    IF ~IsSome(block_number) /\ p.number = "err" THEN Err("get_block_number failed")
    ELSE LET number == IF IsSome(block_number) THEN Unwrap(block_number) ELSE LatestBlock
         IN  CASE p.block = "err" -> Err("get_block_by_number failed")
               [] p.block = "none" -> Err("Block get failed")
               [] OTHER -> Ok([number |-> number, timestamp |-> TimestampOf(number)])

\* ---------------------------------------------------------------- simulator
NATIVE_TOKEN_ADDRESS == "NATIVE"
NonNativeTokens == {"T1", "T2"}
Tokens == {NATIVE_TOKEN_ADDRESS} \cup NonNativeTokens

Transfer(t) == [token |-> t]
\* one element of the Vec process_transactions returns:
\* Ok((ExecutionResult, TxTraceOutput)) or Err(EvmError)
TxOk(success, transfers) ==
    Ok([is_success |-> success, asset_transfers |-> transfers])
TxErr == Err("EvmError")

ExecOutcomes ==
    {TxErr} \cup
    { TxOk(b, [i \in DOMAIN ts |-> Transfer(ts[i])]) :
        b \in BOOLEAN, ts \in SeqsUpTo(Tokens, MaxTransfers) }
ParseOutcomes == {TxErr, TxOk(TRUE, <<Transfer("T1")>>)}
Outcomes == {TxErr, TxOk(TRUE, <<>>), TxOk(TRUE, <<Transfer("T1")>>)}

\* main.rs 105-110: the transfers of one successful outcome
RECURSIVE push_transfers(_, _)
push_transfers(transfers, tokens) ==
    IF transfers = <<>> THEN tokens
    ELSE LET token == Head(transfers).token
         IN  push_transfers(
                 Tail(transfers),
                 IF token # NATIVE_TOKEN_ADDRESS /\ \A i \in DOMAIN tokens : tokens[i] # token
                 THEN Append(tokens, token) ELSE tokens)

RECURSIVE collect_tokens_of_all(_, _)
collect_tokens_of_all(result, tokens) ==
    IF result = <<>> THEN tokens
    ELSE LET r == Head(result)
         IN  collect_tokens_of_all(
                 Tail(result),
                 IF r.ok THEN push_transfers(r.val.asset_transfers, tokens) ELSE tokens)
\* main.rs 102-112: the loop over result.iter().flatten()
RECURSIVE collect_tokens(_, _)
collect_tokens(result, tokens) ==
    IF result = <<>> THEN tokens
    ELSE LET r == Head(result)
         IN  collect_tokens(
                 Tail(result),
                 IF r.ok /\ r.val.is_success
                 THEN push_transfers(r.val.asset_transfers, tokens) ELSE tokens)

TokenInfo(symbol, decimals) == [symbol |-> symbol, decimals |-> decimals]
\* the metadata the chain holds for a token contract
MetadataOf(token) == IF token = "T1" THEN TokenInfo("TKA", 6) ELSE TokenInfo("TKB", 18)

\* get_token_infos(evm, &tokens, None): one query per listed token, in order;
\* the call fails iff the query of a listed token fails
get_token_infos(tokens, failing) ==
    IF \E i \in DOMAIN tokens : tokens[i] \in failing
    THEN Err("token query failed")
    ELSE Ok([i \in DOMAIN tokens |-> MetadataOf(tokens[i])])

\* HashMap as a function on its key set
EmptyMap == <<>>
Insert(m, k, v) == [x \in DOMAIN m \cup {k} |-> IF x = k THEN v ELSE m[x]]

\* main.rs 117-120: token_infos_map.insert(tokens[index], info) for each index
RECURSIVE insert_infos(_, _, _, _)
insert_infos(map, tokens, infos, index) ==
    IF index > Len(infos) THEN map
    ELSE insert_infos(Insert(map, tokens[index], infos[index]), tokens, infos, index + 1)

\* main.rs 131-139
native_token_info(chain_id) ==
    TokenInfo(chains_map[chain_id].symbol, chains_map[chain_id].decimals)

\* types.rs 14-17
TraceResponse(result, token_infos) == [result |-> result, token_infos |-> token_infos]

\* main.rs 94-97
NotFoundResponse(chain_id) ==
    TraceResponse(Err(<<"EVM instance not found for chain ", chain_id>>), None)
\* main.rs 122-128
TokenFailureResponse(e) ==
    TraceResponse(Err(<<"Failed to get token infos: ", e>>), None)
SuccessResponseWithoutNative(chain_id, res, toks, infos) ==
    TraceResponse(Ok(res), Some(insert_infos(EmptyMap, toks, infos, 1)))
\* main.rs 131-145
SuccessResponse(chain_id, result, tokens, infos) ==
    TraceResponse(
        Ok(result),
        Some(Insert(insert_infos(EmptyMap, tokens, infos, 1),
                    NATIVE_TOKEN_ADDRESS, native_token_info(chain_id))))

\* ---------------------------------------------------------------- trace.rs 116-146
SimulationError(msg) == SimulateError("SimulationError", msg)
\* line 114
SendError == SimulationError(<<"Failed to send trace request: ", "channel closed">>)
TimeoutErrorAsClosed == SimulationError(<<"Response channel closed">>)
\* line 120
TimeoutError == SimulationError(<<"Trace request timed out">>)
ClosedErrorAsTimeout == SimulationError(<<"Trace request timed out">>)
\* line 121
ClosedError == SimulationError(<<"Response channel closed">>)

\* types.rs 28-44 and trace.rs 127-136
SimulationResult(block_number, r) ==
    IF r.ok
    THEN [block_number |-> block_number, error |-> None,
          execution_result |-> Some(r.val.is_success),
          trace_result |-> Some(r.val.asset_transfers)]
    ELSE [block_number |-> block_number, error |-> Some(<<"Trace Error:", r.err>>),
          execution_result |-> None, trace_result |-> None]

render_failing_on_error(response, block_number) ==
    IF response.result.ok /\ \A i \in DOMAIN response.result.val : response.result.val[i].ok
    THEN Ok([status |-> 200,
             results |-> [i \in DOMAIN response.result.val |->
                            SimulationResult(block_number, response.result.val[i])],
             token_infos |-> response.token_infos])
    ELSE Err(SimulationError(<<"Trace Error:">>))
\* trace.rs 122-146: the handler's return value for a received TraceResponse
render(response, block_number) ==
    IF response.result.ok
    THEN Ok([status |-> 200,
             results |-> [i \in DOMAIN response.result.val |->
                            SimulationResult(block_number, response.result.val[i])],
             token_infos |-> response.token_infos])
    ELSE Err(SimulationError(response.result.err))

\* ---------------------------------------------------------------- state
\* main.rs 62: mpsc::channel::<TxRequest>(32)
CHANNEL_CAPACITY == 32
\* the capacity of the channel in the specification that fills it
QueueCapacity == 1

VARIABLES
    fpc,        \* per HTTP call: where simulate_batch stands
    req,        \* per HTTP call: the BatchTraceRequest it received
    built,      \* per HTTP call: the transactions and block_env built so far
    resp,       \* per HTTP call: what simulate_batch returned
    queue,      \* the mpsc channel: TxRequests sent and not yet received
    txh,        \* per HTTP call: its oneshot Sender (response_tx)
    rxh,        \* per HTTP call: its oneshot Receiver (response_rx)
    slot,       \* per HTTP call: the value held by its oneshot channel
    epc,        \* where the loop of main stands
    cur,        \* the TxRequest of the current (or the last) iteration
    result,     \* main.rs 100: what process_transactions returned in it
    tokens,     \* main.rs 102: the token addresses collected in it
    evm_cache,  \* main.rs 47: per chain, the batches its EVM instance has run
    shutdown,   \* the interrupt signal has been raised
    server,     \* the HTTP server: "running" or "stopped"
    enqueued,   \* history: the calls in the order their TxRequest was sent
    trail,      \* history: the steps of the loop, <<call, step>>
    sent,       \* history: per call, the TraceResponses passed to response_tx.send
    ended       \* history: per call, the line simulate_batch returned from

vars ==
    <<fpc, req, built, resp, queue, txh, rxh, slot, epc, cur, result, tokens,
      evm_cache, shutdown, server, enqueued, trail, sent, ended>>

frontVars == <<fpc, req, built, resp>>
execVars == <<epc, cur, result, tokens, evm_cache>>

NoRequest == [chain_id |-> 0, is_stateful |-> FALSE, block_number |-> None, requests |-> <<>>]
NoBatch == [transactions |-> <<>>, block_env |-> None]
NoJob == [chain_id |-> 0, txs |-> NoBatch, response_tx |-> 0]
Pending == [pending |-> TRUE]

Init ==
    /\ fpc = [f \in Calls |-> "idle"]
    /\ req = [f \in Calls |-> NoRequest]
    /\ built = [f \in Calls |-> NoBatch]
    /\ resp = [f \in Calls |-> Pending]
    /\ queue = <<>>
    /\ txh = [f \in Calls |-> "none"]
    /\ rxh = [f \in Calls |-> "none"]
    /\ slot = [f \in Calls |-> None]
    /\ epc = "recv"
    /\ cur = NoJob
    /\ result = <<>>
    /\ tokens = <<>>
    /\ evm_cache = [c \in DOMAIN chains_map |-> 0]
    /\ shutdown = FALSE
    /\ server = "running"
    /\ enqueued = <<>>
    /\ trail = <<>>
    /\ sent = [f \in Calls |-> <<>>]
    /\ ended = [f \in Calls |-> "running"]

\* ---------------------------------------------------------------- simulate_batch
\* the handler returns `r` (a Result<HttpResponse, SimulateError>)
Return(f, r, how) ==
    /\ resp' = [resp EXCEPT ![f] = r]
    /\ fpc' = [fpc EXCEPT ![f] = "done"]
    /\ ended' = [ended EXCEPT ![f] = how]

validate_transactions_first(r) ==
    LET t == build_transactions(r.requests, <<>>)
    IN  IF ~t.ok THEN t
        ELSE IF r.chain_id \notin supported_chains
        THEN Err(SimulateError("ChainNotFound", r.chain_id))
        ELSE t
validate_any_chain(r) == build_transactions(r.requests, <<>>)
\* trace.rs 45-95: the chain lookup, then the transactions
validate(r) ==
    IF r.chain_id \notin supported_chains
    THEN Err(SimulateError("ChainNotFound", r.chain_id))
    ELSE build_transactions(r.requests, <<>>)

\* trace.rs 45-95: take the request apart, look the chain up, build the transactions
ParseRequest(f, R) ==
    /\ fpc[f] = "idle"
    /\ server = "running"
    /\ \E r \in R :
        /\ req' = [req EXCEPT ![f] = r]
        /\ LET t == validate(r)
           IN  IF t.ok
               THEN /\ built' = [built EXCEPT ![f].transactions = t.val]
                    /\ fpc' = [fpc EXCEPT ![f] = "blockenv"]
                    /\ UNCHANGED <<resp, ended>>
               ELSE /\ Return(f, t, "rejected")
                    /\ UNCHANGED built
    /\ UNCHANGED <<queue, txh, rxh, slot, execVars, shutdown, server,
                   enqueued, trail, sent>>

\* trace.rs 96-102: get_block_env(block_number, provider).await?
GetBlockEnv(f) ==
    /\ fpc[f] = "blockenv"
    /\ \E p \in ProviderAnswers :
        LET e == get_block_env(req[f].block_number, p)
        IN  IF e.ok
            THEN /\ built' = [built EXCEPT ![f].block_env = Some(e.val)]
                 /\ fpc' = [fpc EXCEPT ![f] = "send"]
                 /\ UNCHANGED <<resp, ended>>
            ELSE /\ Return(f, Err(FromString(e.err)), "rejected")
                 /\ UNCHANGED built
    /\ UNCHANGED <<req, queue, txh, rxh, slot, execVars, shutdown, server,
                   enqueued, trail, sent>>

\* types.rs 20-24
TxRequest(chain_id, txs, response_tx) ==
    [chain_id |-> chain_id, txs |-> txs, response_tx |-> response_tx]

has_permit_always(q, capacity) == TRUE
\* Sender::send(..).await completes once the channel of main.rs 62 has a free
\* slot among the `capacity` it was created with
has_permit(q, capacity) == Len(q) < capacity

\* trace.rs 104-115: oneshot::channel(), then trace_tx.send(..).await, which
\* suspends while the channel is full and fails once the receiver is gone
SendJob(f, capacity) ==
    /\ fpc[f] = "send"
    /\ IF epc = "exited"
       THEN /\ Return(f, Err(SendError), "sendfail")
            /\ txh' = [txh EXCEPT ![f] = "dropped"]
            /\ rxh' = [rxh EXCEPT ![f] = "dropped"]
            /\ UNCHANGED <<queue, enqueued>>
       ELSE /\ has_permit(queue, capacity)
            /\ queue' = Append(queue, TxRequest(req[f].chain_id, built[f], f))
            /\ txh' = [txh EXCEPT ![f] = "live"]
            /\ rxh' = [rxh EXCEPT ![f] = "live"]
            /\ enqueued' = Append(enqueued, f)
            /\ fpc' = [fpc EXCEPT ![f] = "wait"]
            /\ UNCHANGED <<resp, ended>>
    /\ UNCHANGED <<req, built, slot, execVars, shutdown, server, trail, sent>>

\* trace.rs 118-146: the oneshot holds a value
Receive(f) ==
    /\ fpc[f] = "wait"
    /\ IsSome(slot[f])
    /\ Return(f, render(Unwrap(slot[f]), Unwrap(built[f].block_env).number), "result")
    /\ rxh' = [rxh EXCEPT ![f] = "dropped"]
    /\ UNCHANGED <<req, built, queue, txh, slot, execVars, shutdown, server,
                   enqueued, trail, sent>>

\* trace.rs 118-120: TIMEOUT_DURATION elapses with the Sender alive and nothing sent
Timeout(f) ==
    /\ fpc[f] = "wait"
    /\ slot[f] = None
    /\ txh[f] = "live"
    /\ Return(f, Err(TimeoutError), "timeout")
    /\ rxh' = [rxh EXCEPT ![f] = "dropped"]
    /\ UNCHANGED <<req, built, queue, txh, slot, execVars, shutdown, server,
                   enqueued, trail, sent>>

\* trace.rs 121: the Sender was dropped without a send
Closed(f) ==
    /\ fpc[f] = "wait"
    /\ slot[f] = None
    /\ txh[f] = "dropped"
    /\ Return(f, Err(ClosedError), "closed")
    /\ rxh' = [rxh EXCEPT ![f] = "dropped"]
    /\ UNCHANGED <<req, built, queue, txh, slot, execVars, shutdown, server,
                   enqueued, trail, sent>>

\* ---------------------------------------------------------------- main loop
\* let _ = response_tx.send(response): the Sender is consumed; the value reaches
\* the oneshot only while its Receiver lives, and the Err of a failed send is ignored
send(f, response) ==
    /\ sent' = [sent EXCEPT ![f] = Append(@, response)]
    /\ txh' = [txh EXCEPT ![f] = "sent"]
    /\ slot' = [slot EXCEPT ![f] = IF rxh[f] = "live" THEN Some(response) ELSE @]

NextIterationUnlessSendFailed ==
    epc' = IF rxh[cur.response_tx] = "live" THEN "recv" ELSE "stopping"
RepeatIteration == epc' = "execute"
\* main.rs 98, 129, 146: `continue`, or the end of the loop body: back to rx.recv()
NextIteration == epc' = "recv"

mpsc_recv_newest(q) == [job |-> q[Len(q)], rest |-> SubSeq(q, 1, Len(q) - 1)]
\* the mpsc channel hands out the oldest message
mpsc_recv(q) == [job |-> Head(q), rest |-> Tail(q)]

\* tokio::signal::ctrl_c().now_or_never().is_some()
ctrl_c_received == shutdown

\* main.rs 79-90: rx.recv().await yields the oldest TxRequest; then the Ctrl+C
\* check: on a signal the loop breaks (the TxRequest just received is dropped
\* with its response_tx) and line 149 tells the server to stop
Recv ==
    /\ epc = "recv"
    /\ queue # <<>>
    /\ LET job == mpsc_recv(queue).job
       IN  /\ queue' = mpsc_recv(queue).rest
           /\ IF ctrl_c_received
              THEN /\ epc' = "stopping"
                   /\ txh' = [txh EXCEPT ![job.response_tx] = "dropped"]
                   /\ trail' = trail \o <<<<job.response_tx, "recv">>,
                                          <<job.response_tx, "discard">>>>
                   /\ UNCHANGED cur
              ELSE /\ epc' = "execute"
                   /\ cur' = job
                   /\ trail' = Append(trail, <<job.response_tx, "recv">>)
                   /\ UNCHANGED txh
    /\ UNCHANGED <<frontVars, rxh, slot, result, tokens, evm_cache, shutdown, server,
                   enqueued, sent, ended>>

\* main.rs 93-112: the EVM lookup, process_transactions, the token collection
Execute(O) ==
    /\ epc = "execute"
    /\ IF cur.chain_id \notin DOMAIN evm_cache
       THEN /\ send(cur.response_tx, NotFoundResponse(cur.chain_id))
            /\ NextIteration
            /\ trail' = Append(trail, <<cur.response_tx, "deliver">>)
            /\ UNCHANGED <<cur, result, tokens, evm_cache>>
       ELSE /\ \E r \in [DOMAIN cur.txs.transactions -> O] :
                /\ result' = r
                /\ tokens' = collect_tokens(r, <<>>)
            /\ evm_cache' = [evm_cache EXCEPT ![cur.chain_id] = @ + 1]
            /\ epc' = "resolve"
            /\ trail' = Append(trail, <<cur.response_tx, "execute">>)
            /\ UNCHANGED <<cur, txh, slot, sent>>
    /\ UNCHANGED <<frontVars, queue, rxh, shutdown, server, enqueued, ended>>

resolve_response_partial(chain_id, res, toks, token_infos) ==
    IF token_infos.ok
    THEN SuccessResponse(chain_id, res, toks, token_infos.val)
    ELSE SuccessResponse(chain_id, res, <<>>, <<>>)
\* main.rs 113-145: the TraceResponse for what get_token_infos returned
resolve_response(chain_id, res, toks, token_infos) ==
    IF token_infos.ok
    THEN SuccessResponse(chain_id, res, toks, token_infos.val)
    ELSE TokenFailureResponse(token_infos.err)

\* main.rs 113-146: get_token_infos, then the error or the success response
Resolve ==
    /\ epc = "resolve"
    /\ \E failing \in SUBSET Tokens :
        LET token_infos == get_token_infos(tokens, failing)
        IN  /\ send(cur.response_tx,
                    resolve_response(cur.chain_id, result, tokens, token_infos))
            /\ trail' = trail \o
                 <<<<cur.response_tx, IF token_infos.ok THEN "resolved" ELSE "unresolved">>,
                   <<cur.response_tx, "deliver">>>>
    /\ NextIteration
    /\ UNCHANGED <<frontVars, queue, rxh, cur, result, tokens, evm_cache, shutdown,
                   server, enqueued, ended>>

\* main.rs 147-151: server_handle.stop(true).await ends the handlers still
\* running; main returns, rx is dropped and with it every TxRequest still queued
Stop ==
    /\ epc = "stopping"
    /\ epc' = "exited"
    /\ server' = "stopped"
    /\ fpc' = [f \in Calls |-> IF fpc[f] \in {"idle", "done"} THEN fpc[f] ELSE "aborted"]
    /\ ended' = [f \in Calls |-> IF fpc[f] \in {"idle", "done"} THEN ended[f] ELSE "aborted"]
    /\ rxh' = [f \in Calls |-> IF rxh[f] = "live" THEN "dropped" ELSE rxh[f]]
    /\ txh' = [f \in Calls |->
                 IF \E i \in DOMAIN queue : queue[i].response_tx = f
                 THEN "dropped" ELSE txh[f]]
    /\ queue' = <<>>
    /\ UNCHANGED <<req, built, resp, slot, cur, result, tokens, evm_cache, shutdown,
                   enqueued, trail, sent>>

\* the operator presses Ctrl+C
Interrupt ==
    /\ ~shutdown
    /\ server = "running"
    /\ shutdown' = TRUE
    /\ UNCHANGED <<frontVars, queue, txh, rxh, slot, execVars, server, enqueued,
                   trail, sent, ended>>

\* ---------------------------------------------------------------- specifications
\* simulate_batch up to the submission of the TxRequest
Submit(f, R, capacity) ==
    \/ ParseRequest(f, R)
    \/ GetBlockEnv(f)
    \/ SendJob(f, capacity)

\* simulate_batch after it: timeout(TIMEOUT_DURATION, response_rx).await
Await(f) ==
    \/ Receive(f)
    \/ Timeout(f)

Frontend(f, R, capacity) ==
    \/ Submit(f, R, capacity)
    \/ Await(f)
    \/ Closed(f)

Executor(O) ==
    \/ Recv
    \/ Execute(O)
    \/ Resolve
    \/ Stop

\* the control flow: NumCalls concurrent calls with one-transaction requests
Next ==
    \/ \E f \in Calls : Frontend(f, Requests, CHANNEL_CAPACITY)
    \/ Executor(Outcomes)
    \/ Interrupt

Spec == Init /\ [][Next]_vars

\* request parsing: every request for the studied call, beside a background call
ParseNext ==
    \/ \E f \in StudyCalls : Submit(f, ParseRequests, CHANNEL_CAPACITY) \/ Await(f)
    \/ \E f \in BackgroundCalls : Submit(f, BackgroundRequests, CHANNEL_CAPACITY) \/ Await(f)
    \/ Recv
    \/ Execute(ParseOutcomes)
    \/ Resolve

ParseSpec == Init /\ [][ParseNext]_vars

\* execution: every simulator and token-resolver answer for the studied call
ExecNext ==
    \/ \E f \in StudyCalls : Frontend(f, ExecRequests, CHANNEL_CAPACITY)
    \/ Executor(ExecOutcomes)
    \/ Interrupt

ExecSpec == Init /\ [][ExecNext]_vars

\* the channel in use up to its capacity: the control flow of Spec with a
\* channel of QueueCapacity slots, which NumCalls calls can fill
QueueNext ==
    \/ \E f \in Calls : Frontend(f, Requests, QueueCapacity)
    \/ Executor(Outcomes)
    \/ Interrupt

QueueSpec == Init /\ [][QueueNext]_vars

\* the loop runs whenever it can; a handler that is not suspended runs on
\* (requests and interrupts arrive as they please, and a timeout needs time to pass)
FairSpec ==
    /\ Spec
    /\ WF_vars(Executor(Outcomes))
    /\ \A f \in Calls :
         WF_vars(GetBlockEnv(f) \/ SendJob(f, CHANNEL_CAPACITY) \/ Receive(f) \/ Closed(f))

\* ---------------------------------------------------------------- properties
Recorded(f, step) == \E i \in DOMAIN trail : trail[i] = <<f, step>>
Position(f, step) == CHOOSE i \in DOMAIN trail : trail[i] = <<f, step>>
Dequeued(f) == Recorded(f, "recv")
IsRecv(e) == e[2] = "recv"
Received == SelectSeq(trail, IsRecv)
\* the loop is between the Ctrl+C check and the end of the iteration for f's TxRequest
Working(f) == cur.response_tx = f /\ epc \in {"execute", "resolve"}

\* C1: every TxRequest the loop has received and is no longer working on has had
\* exactly one TraceResponse passed to its response_tx, shutdown or not.
C1_OneResultPerDequeuedJob ==
    \A f \in Calls : (Dequeued(f) /\ ~Working(f)) => Len(sent[f]) = 1

\* C2: TxRequests are received in the order they were sent, and the steps the loop
\* takes for one of them are not interleaved with the steps for another.
C2_FifoOneAtATime ==
    /\ Len(Received) <= Len(enqueued)
    /\ \A i \in DOMAIN Received : Received[i][1] = enqueued[i]
    /\ \A i, j, k \in DOMAIN trail :
         (i < j /\ j < k /\ trail[i][1] = trail[k][1]) => trail[j][1] = trail[i][1]

C2_Witness ==
    /\ enqueued = <<2, 1>>
    /\ Recorded(1, "deliver")
    /\ Recorded(2, "deliver")
    /\ Position(2, "deliver") < Position(1, "recv")

\* the other ways a call that reached the queue fails with a SimulationError
OtherSimulationFailure(g) ==
    \/ ended[g] \in {"sendfail", "closed"}
    \/ ended[g] = "result" /\ ~resp[g].ok

C4_TimedOutJobRunsToCompletion ==
    [][\A f \in Calls :
        (Working(f) /\ ended[f] = "timeout") =>
            /\ cur' = cur
            /\ epc = "execute" =>
                 \/ epc' = "execute" /\ sent'[f] = sent[f]
                 \/ /\ epc' = "resolve"
                    /\ Len(result') = Len(cur.txs.transactions)
                    /\ evm_cache'[cur.chain_id] = evm_cache[cur.chain_id] + 1
                    /\ sent'[f] = sent[f]
            /\ epc = "resolve" =>
                 \/ epc' = "resolve" /\ sent'[f] = sent[f]
                 \/ /\ epc' = "recv"
                    /\ sent[f] = <<>>
                    /\ Len(sent'[f]) = 1
                    /\ slot'[f] = None
                    /\ resp' = resp
                    /\ fpc' = fpc
                    /\ server' = server]_vars

C4_Witness ==
    \E f, g \in Calls :
        /\ ended[f] = "timeout"
        /\ Len(sent[f]) = 1
        /\ slot[f] = None
        /\ Recorded(f, "deliver")
        /\ Recorded(g, "recv")
        /\ Position(f, "deliver") < Position(g, "recv")
        /\ ended[g] = "result"
        /\ resp[g].ok

\* C5 as stated: once the interrupt signal is raised the loop receives no further
\* TxRequest from the channel.
C5_NoDequeueAfterShutdown ==
    [][shutdown => Len(SelectSeq(trail', IsRecv)) = Len(Received)]_vars

NeverEnqueued(f) ==
    /\ \A i \in DOMAIN enqueued : enqueued[i] # f
    /\ \A i \in DOMAIN queue : queue[i].response_tx # f
    /\ txh[f] = "none"
    /\ rxh[f] = "none"
    /\ sent[f] = <<>>

\* C7: a call whose chain_id is not configured has returned ChainNotFound(chain_id)
\* and has sent no TxRequest, whatever its requests and whatever the queue holds.
C7_UnknownChainNeverQueued ==
    \A f \in Calls :
        (fpc[f] # "idle" /\ req[f].chain_id \notin DOMAIN chains_map) =>
            /\ fpc[f] = "done"
            /\ ended[f] = "rejected"
            /\ resp[f] = Err(SimulateError("ChainNotFound", req[f].chain_id))
            /\ error_response(resp[f].err) =
                 [status |-> 400, error |-> <<"Chain not found: ", req[f].chain_id>>]
            /\ NeverEnqueued(f)

C7_Witness ==
    \E f \in Calls :
        /\ fpc[f] = "done"
        /\ req[f].chain_id = 999
        /\ Len(req[f].requests) = MaxTxs
        /\ ~build_transactions(req[f].requests, <<>>).ok
        /\ queue # <<>>

\* what makes one request entry fail a check of lines 58-84
DefectiveEntry(r) ==
    \/ ~parse_address(r.from).ok
    \/ r.operation = 0 /\ r.to = None
    \/ r.operation = 0 /\ IsSome(r.to) /\ ~parse_address(Unwrap(r.to)).ok
    \/ r.operation \notin {0, 2}
    \/ IsSome(r.value) /\ ~parse_u256(Unwrap(r.value)).ok
    \/ IsSome(r.data) /\ ~hex_decode(Unwrap(r.data)).ok
Defective(rq) == \E i \in DOMAIN rq.requests : DefectiveEntry(rq.requests[i])
RequestShapeClasses ==
    {"AddressParseError", "Uint256ParseError", "InvalidOperation", "HexDecodeError"}

\* C8: a request with a defective entry, and a request whose block cannot be
\* resolved, is answered with an error in the step that finds the failure, and
\* that step leaves the queue, every oneshot and the loop with its EVM instances
\* as they were: no TxRequest of the call exists or ever existed.
C8_RejectedBeforeQueue ==
    [][\A f \in Calls :
        /\ (fpc[f] = "idle" /\ fpc'[f] # "idle" /\ req'[f].chain_id \in supported_chains
                /\ Defective(req'[f]))
             => (ended'[f] = "rejected" /\ resp'[f].err.class \in RequestShapeClasses)
        /\ (fpc[f] = "blockenv" /\ fpc'[f] = "done")
             => (ended'[f] = "rejected" /\ resp'[f].err.class = "AnyhowError")
        /\ (ended[f] = "running" /\ ended'[f] = "rejected")
             => /\ ~resp'[f].ok
                /\ NeverEnqueued(f)'
                /\ UNCHANGED <<queue, enqueued, txh, rxh, slot, sent, execVars, trail>>
      ]_vars

C8_Witness ==
    \E f \in Calls :
        /\ ended[f] = "rejected"
        /\ req[f].chain_id \in supported_chains
        /\ Defective(req[f])
        /\ resp[f].err.class = "HexDecodeError"
        /\ queue # <<>>

\* C9: a TxRequest whose get_token_infos call failed gets one TraceResponse, an
\* Err with token_infos None, and a caller that receives it returns that error only.
C9_TokenFailureFailsBatch ==
    \A f \in Calls :
        Recorded(f, "unresolved") =>
            /\ Len(sent[f]) = 1
            /\ ~sent[f][1].result.ok
            /\ sent[f][1].token_infos = None
            /\ fpc[f] = "done" => ~resp[f].ok
            /\ ended[f] = "result" =>
                 resp[f] = Err(SimulationError(<<"Failed to get token infos: ",
                                                 "token query failed">>))

C9_Witness ==
    \E f \in Calls :
        /\ Recorded(f, "unresolved")
        /\ ended[f] = "result"
        /\ cur.response_tx = f
        /\ Len(result) = MaxTxs
        /\ \A i \in DOMAIN result : result[i].ok /\ result[i].val.is_success

NoNonNativeAsset(res) ==
    \A i \in DOMAIN res :
        res[i].ok =>
            \A j \in DOMAIN res[i].val.asset_transfers :
                res[i].val.asset_transfers[j].token = NATIVE_TOKEN_ADDRESS

C11_ResultsInRequestOrder ==
    \A f \in Calls :
        /\ (cur.response_tx = f /\ Dequeued(f)) =>
              /\ cur.txs.transactions = built[f].transactions
              /\ Recorded(f, "execute") => DOMAIN result = DOMAIN cur.txs.transactions
              /\ Recorded(f, "resolved") => sent[f] = <<TraceResponse(Ok(result), sent[f][1].token_infos)>>
        /\ (ended[f] = "result" /\ resp[f].ok) =>
              /\ Len(sent[f]) = 1
              /\ sent[f][1].result.ok
              /\ Len(resp[f].val.results) = Len(req[f].requests)
              /\ Len(built[f].transactions) = Len(req[f].requests)
              /\ \A i \in DOMAIN req[f].requests :
                    /\ built[f].transactions[i] = simulation_tx(req[f].requests[i]).val
                    /\ resp[f].val.results[i] =
                         SimulationResult(Unwrap(built[f].block_env).number,
                                          sent[f][1].result.val[i])

C11_Witness ==
    \E f \in Calls :
        /\ ended[f] = "result"
        /\ resp[f].ok
        /\ req[f].requests = <<CallEntry, CreateEntry>>
        /\ ~sent[f][1].result.val[1].ok
        /\ sent[f][1].result.val[2].ok
        /\ IsSome(resp[f].val.results[1].error)
        /\ resp[f].val.results[2].error = None

Suspended(f) == fpc[f] = "send" /\ Len(queue) >= QueueCapacity /\ epc # "exited"

\* C12: the channel never holds more TxRequests than its capacity; while the
\* server runs, a call whose send finds the channel full stays at the send with
\* nothing returned, nothing enqueued and its transactions kept, its TxRequest
\* enters the channel only in a step that finds a free slot, and a call at the
\* send can take that step as soon as the channel has a free slot.
C12_BoundedQueueSuspends ==
    /\ [](Len(queue) <= QueueCapacity)
    /\ [](\A f \in Calls :
            (fpc[f] = "send" /\ Len(queue) < QueueCapacity /\ epc # "exited")
                => ENABLED SendJob(f, QueueCapacity))
    /\ [][\A f \in Calls :
            /\ (Suspended(f) /\ server' = "running") =>
                  /\ fpc'[f] = "send"
                  /\ resp'[f] = Pending
                  /\ built'[f] = built[f]
                  /\ NeverEnqueued(f)'
            /\ (fpc[f] = "send" /\ fpc'[f] = "wait") =>
                  /\ Len(queue) < QueueCapacity
                  /\ queue' = Append(queue, TxRequest(req[f].chain_id, built[f], f))
       ]_vars

\* a call held at the send by a full channel while the loop is about to receive
C12_Witness ==
    \E f, g \in Calls :
        /\ Suspended(f)
        /\ resp[f] = Pending
        /\ Len(queue) = QueueCapacity
        /\ queue[1].response_tx = g
        /\ epc = "recv"
        /\ ~shutdown

\* C13: response_tx.send is called at most once for a TxRequest, by the iteration
\* of the loop that received it, and consumes the Sender; the step touches the
\* oneshot of no other call; what a oneshot holds is the one TraceResponse sent
\* for its call, and a call that received a value returns that TraceResponse.
C13_OneSendPerHandle ==
    /\ [](\A f \in Calls :
            /\ Len(sent[f]) <= 1
            /\ txh[f] = "sent" <=> Len(sent[f]) = 1
            /\ IsSome(slot[f]) => slot[f] = sent[f]
            /\ ended[f] = "result" =>
                  resp[f] = render(sent[f][1], Unwrap(built[f].block_env).number))
    /\ [][\A f \in Calls :
            sent'[f] # sent[f] =>
                /\ sent[f] = <<>>
                /\ txh[f] = "live"
                /\ Working(f)
                /\ cur.txs = built[f]
                /\ sent'[f][1].result.ok => sent'[f][1].result.val = result
                /\ ~Working(f)'
                /\ \A g \in Calls \ {f} : sent'[g] = sent[g] /\ slot'[g] = slot[g]
       ]_vars

C13_Witness ==
    \E f, g \in Calls :
        /\ ended[f] = "result"
        /\ ended[g] = "result"
        /\ Len(sent[f]) = 1
        /\ Len(sent[g]) = 1
        /\ resp[f].ok
        /\ ~resp[g].ok
        /\ shutdown

\* C14: a call that leaves its wait while its Sender is gone and nothing was
\* sent returns "Response channel closed"; it returns that error in no other
\* case, and it returns "Trace request timed out" only while its Sender is
\* alive and nothing was sent.
C14_ClosedNotTimeout ==
    [][\A f \in Calls :
        (fpc[f] = "wait" /\ fpc'[f] = "done") =>
            /\ (txh[f] = "dropped" /\ slot[f] = None) =>
                  /\ resp'[f] = Err(SimulationError(<<"Response channel closed">>))
                  /\ ended'[f] = "closed"
            /\ resp'[f] = Err(SimulationError(<<"Response channel closed">>)) =>
                  /\ txh[f] = "dropped"
                  /\ sent[f] = <<>>
            /\ resp'[f] = Err(SimulationError(<<"Trace request timed out">>)) =>
                  /\ txh[f] = "live"
                  /\ slot[f] = None
                  /\ sent[f] = <<>>
                  /\ ended'[f] = "timeout"
      ]_vars

C14_Witness ==
    \E f \in Calls :
        /\ Recorded(f, "discard")
        /\ ended[f] = "closed"
        /\ error_response(resp[f].err) =
             [status |-> 400,
              error |-> <<"Simulation error: ", <<"Response channel closed">>>>]
        /\ server = "running"

\* the call was answered with InvalidOperation(msg) and sent no TxRequest
RejectedAsInvalidOperation(f, msg) ==
    /\ fpc[f] = "done"
    /\ ended[f] = "rejected"
    /\ resp[f] = Err(SimulateError("InvalidOperation", msg))
    /\ error_response(resp[f].err) = [status |-> 400, error |-> <<"Invalid operation: ", msg>>]
    /\ NeverEnqueued(f)

\* C15: in a request for a configured chain, the first entry to fail a check,
\* if its caller parses, rejects the request as InvalidOperation when its
\* operation is 0 without a destination ("Operation call must have a to
\* address") or is neither 0 nor 2 ("Invalid operation type"); in a request
\* that passes every check, an entry of operation 0 becomes a Call to its
\* destination and an entry of operation 2 a Create.
C15_OperationCodes ==
    \A f \in Calls :
        (fpc[f] # "idle" /\ req[f].chain_id \in supported_chains) =>
            LET rs == req[f].requests
            IN  /\ \A i \in DOMAIN rs :
                      ((\A j \in 1..(i - 1) : ~DefectiveEntry(rs[j]))
                            /\ parse_address(rs[i].from).ok) =>
                          /\ (rs[i].operation = 0 /\ rs[i].to = None) =>
                                RejectedAsInvalidOperation(
                                    f, "Operation call must have a to address")
                          /\ rs[i].operation \notin {0, 2} =>
                                RejectedAsInvalidOperation(f, "Invalid operation type")
                /\ ~Defective(req[f]) =>
                      /\ Len(built[f].transactions) = Len(rs)
                      /\ \A i \in DOMAIN rs :
                            /\ rs[i].operation \in {0, 2}
                            /\ rs[i].operation = 0 =>
                                  built[f].transactions[i].transact_to =
                                      <<"Call", AddressValue(Unwrap(rs[i].to))>>
                            /\ rs[i].operation = 2 =>
                                  built[f].transactions[i].transact_to = <<"Create">>

C15_Witness ==
    \E f \in Calls :
        /\ Len(req[f].requests) = MaxTxs
        /\ req[f].requests[1] = CallEntry
        /\ req[f].requests[MaxTxs].operation = 1
        /\ IsSome(req[f].requests[MaxTxs].to)
        /\ RejectedAsInvalidOperation(f, "Invalid operation type")

\* main.rs 115: the step of the loop that calls get_token_infos for f's
\* TxRequest records what the call answered
ResolverCalls(f) ==
    Len(SelectSeq(trail, LAMBDA e : e \in {<<f, "resolved">>, <<f, "unresolved">>}))

\* C16 as stated: get_token_infos is called at most once for a TxRequest, and
\* only when the list of collected token addresses is not empty.
C16_ResolverOnlyForTokens ==
    \A f \in Calls :
        /\ ResolverCalls(f) <= 1
        /\ (cur.response_tx = f /\ ResolverCalls(f) > 0) => tokens # <<>>

\* where a token is named by the asset transfers of successful outcomes:
\* <<transaction, transfer>> positions
Appearances(res, t) ==
    { p \in (DOMAIN res) \X (1..MaxTransfers) :
        /\ res[p[1]].ok
        /\ res[p[1]].val.is_success
        /\ p[2] \in DOMAIN res[p[1]].val.asset_transfers
        /\ res[p[1]].val.asset_transfers[p[2]].token = t }
Before(p, q) == p[1] < q[1] \/ (p[1] = q[1] /\ p[2] < q[2])
FirstAppearance(res, t) ==
    CHOOSE p \in Appearances(res, t) : \A q \in Appearances(res, t) : ~Before(q, p)
TransferredTokens(res) == { t \in NonNativeTokens : Appearances(res, t) # {} }

\* C17: for a TxRequest whose get_token_infos call succeeded, the list passed to
\* the call holds each non-native token of the successful outcomes' transfers
\* once, in order of first appearance, and nothing else; the token_infos map sent
\* has these tokens and the native address as its keys, each token with the
\* TokenInfo resolved for it and the native address with the chain's own.
C17_TokenMapKeys ==
    \A f \in Calls :
        (cur.response_tx = f /\ Recorded(f, "resolved")) =>
            /\ { tokens[i] : i \in DOMAIN tokens } = TransferredTokens(result)
            /\ \A i, j \in DOMAIN tokens : i # j => tokens[i] # tokens[j]
            /\ \A i, j \in DOMAIN tokens :
                  i < j => Before(FirstAppearance(result, tokens[i]),
                                  FirstAppearance(result, tokens[j]))
            /\ Len(sent[f]) = 1
            /\ sent[f][1].result = Ok(result)
            /\ IsSome(sent[f][1].token_infos)
            /\ LET map == Unwrap(sent[f][1].token_infos)
               IN  /\ DOMAIN map = {NATIVE_TOKEN_ADDRESS} \cup TransferredTokens(result)
                   /\ \A i \in DOMAIN tokens : map[tokens[i]] = MetadataOf(tokens[i])
                   /\ map[NATIVE_TOKEN_ADDRESS] =
                        TokenInfo(chains_map[cur.chain_id].symbol,
                                  chains_map[cur.chain_id].decimals)

C17_Witness ==
    \E f \in Calls :
        /\ cur.response_tx = f
        /\ Recorded(f, "resolved")
        /\ result = <<TxOk(TRUE, <<Transfer("T2")>>), TxOk(TRUE, <<Transfer("T1")>>)>>
        /\ tokens = <<"T2", "T1">>
        /\ ended[f] = "result"
        /\ DOMAIN resp[f].val.token_infos[1] = {"NATIVE", "T1", "T2"}

\* C18: a TxRequest whose get_token_infos call succeeded gets an Ok
\* TraceResponse whatever its transactions' outcomes, and the caller that
\* receives it returns 200 with one result per transaction: for a transaction
\* that failed, an error string and neither execution_result nor trace_result;
\* for any other, both of these as the simulator gave them and no error.
C18_TransactionFailureStaysLocal ==
    \A f \in Calls :
        (cur.response_tx = f /\ Recorded(f, "resolved")) =>
            /\ sent[f][1].result.ok
            /\ ended[f] = "result" =>
                  /\ resp[f].ok
                  /\ resp[f].val.status = 200
                  /\ DOMAIN resp[f].val.results = DOMAIN cur.txs.transactions
                  /\ \A i \in DOMAIN result :
                        LET r == resp[f].val.results[i]
                        IN  IF result[i].ok
                            THEN /\ r.error = None
                                 /\ r.execution_result = Some(result[i].val.is_success)
                                 /\ r.trace_result = Some(result[i].val.asset_transfers)
                            ELSE /\ r.error = Some(<<"Trace Error:", result[i].err>>)
                                 /\ r.execution_result = None
                                 /\ r.trace_result = None

C18_Witness ==
    \E f \in Calls :
        /\ cur.response_tx = f
        /\ Recorded(f, "resolved")
        /\ ended[f] = "result"
        /\ result = <<TxOk(TRUE, <<Transfer("T1")>>), TxErr>>
        /\ resp[f].val.results[1].error = None
        /\ IsSome(resp[f].val.results[2].error)

\* C19: the providers of AppState, the EVM instances and the native-asset table
\* cover the same chains at all times; every TxRequest in the channel or in the
\* hands of the loop names one of them, so the EVM lookup and the native lookup
\* of the loop find their entry, and no "EVM instance not found" TraceResponse
\* is ever sent.
C19_EveryQueuedChainKnown ==
    /\ DOMAIN evm_cache = supported_chains
    /\ DOMAIN evm_cache = DOMAIN chains_map
    /\ \A i \in DOMAIN queue : queue[i].chain_id \in DOMAIN evm_cache
    /\ epc \in {"execute", "resolve"} =>
          /\ cur.chain_id \in DOMAIN evm_cache
          /\ cur.chain_id \in DOMAIN chains_map
    /\ \A f \in Calls :
          \A i \in DOMAIN sent[f] :
              /\ sent[f][i] # NotFoundResponse(req[f].chain_id)
              /\ ~sent[f][i].result.ok =>
                    sent[f][i].result.err[1] # "EVM instance not found for chain "

C19_Witness ==
    \E f, g \in Calls :
        /\ req[g].chain_id = 999
        /\ ended[g] = "rejected"
        /\ sent[g] = <<>>
        /\ req[f].chain_id = 1
        /\ evm_cache[1] = 1
        /\ ended[f] = "result"
        /\ resp[f].ok
        /\ Unwrap(resp[f].val.token_infos)[NATIVE_TOKEN_ADDRESS] = TokenInfo("ETH", 18)

HasEnqueued(f) == \E i \in DOMAIN enqueued : enqueued[i] = f

\* C20 as stated, for the case it names: a call whose TxRequest the loop never
\* received still ends by returning the timeout error or the closed-channel
\* error, so it is never ended in any other way.
C20_EnqueuedCallCompletes ==
    \A f \in Calls :
        (HasEnqueued(f) /\ ~Dequeued(f)) =>
            /\ fpc[f] \in {"wait", "done"}
            /\ ended[f] \in {"running", "timeout", "closed"}

====
